---- MODULE Spec2Model ----
(***************************************************************************)
(* Session token lifecycle of jwt-auth-backend: the AuthService handlers   *)
(* (register, login, refresh, logout), the authentication middleware, the  *)
(* users and refresh_tokens tables and the JWT codec they use.             *)
(*                                                                         *)
(* src/src/services/authServices.ts holds two revisions of the service:   *)
(* lines 1-388 (revision 1: refresh re-uses the presented token, logout    *)
(* and the authentication middleware exist) and lines 390-616 (revision 2: *)
(* refresh is written to rotate).  A build contains one of them; the       *)
(* variable `version` is fixed at start-up and selects the handlers.       *)
(*                                                                         *)
(* Every handler is an async function: it is modelled as one action per    *)
(* database round trip (each `await repository.x(...)`), the action taking *)
(* the query and the synchronous code that follows it up to the next       *)
(* await or the response.  Time is Date.now() in milliseconds.             *)
(***************************************************************************)
EXTENDS Integers, Sequences, FiniteSets, TLC

VARIABLES
    now,            \* Date.now(), milliseconds
    ticks,          \* number of clock steps taken (bounds the run)
    version,        \* revision of authServices.ts that is deployed: 1 or 2
    env,            \* process.env: the two signing secrets
    users,          \* table users: sequence of rows, row i has id i
    refreshTokens,  \* table refresh_tokens: sequence of rows, row i has id i
    reqs,           \* request slot -> the request in flight in it (or Idle)
    last,           \* the request answered by the latest step and its response
    issued,         \* history: token strings a login response has returned
    refreshedOK,    \* history: refresh token strings a refresh has accepted
    loggedOut       \* history: refresh token strings a logout answered 200 for

vars == <<now, ticks, version, env, users, refreshTokens, reqs, last, issued,
          refreshedOK, loggedOut>>

-----------------------------------------------------------------------------
(* Bounds of the model *)

MaxTicks == 1
MaxUsers == 1
MaxTokens == 2
NumSlots == 2
\* subject ids of the claims tried on authorizeRoles
MaxSubjects == 2
\* TLC integers are 32 bit: the clock stops before now + TTL can overflow
MaxClock == 1400000000

Slots == 1 .. NumSlots
ClockSteps == {500, 60000, 604800000}

Emails == {"a@x.com", "b@x.com"}
BadEmail == "not-an-email"
Passwords == {"longenough1", "wrongpass9"}
ShortPassword == ""
ClientIps == {"10.0.0.1"}
UserAgents == {"agent-1"}

-----------------------------------------------------------------------------
(* Configuration *)

\* a nullable column holding no value (revoked_at, last_login_at)
NULL == -1

ACCESS_TOKEN_SECRET == env.ACCESS_TOKEN_SECRET
REFRESH_TOKEN_SECRET == env.REFRESH_TOKEN_SECRET

\* "1m", in seconds
ACCESS_TOKEN_EXPIRATION == 60
REFRESH_TOKEN_EXPIRATION_SECONDS == 7 * 24 * 60 * 60

\* the configurations the service is started with here: both secrets set,
\* distinct, 32 characters or more
Envs ==
    {[ACCESS_TOKEN_SECRET |-> "access-secret-0123456789abcdef0123",
      REFRESH_TOKEN_SECRET |-> "refresh-secret-0123456789abcdef012"]}

AttackerSecret == "attacker-secret"

\* configurations the process can be started with: besides Envs, an access
\* secret of 16 characters, one secret used for both classes, a secret missing
Configurations ==
    Envs \cup
    {[ACCESS_TOKEN_SECRET |-> "short-access-key",
      REFRESH_TOKEN_SECRET |-> "refresh-secret-0123456789abcdef012"],
     [ACCESS_TOKEN_SECRET |-> "one-secret-for-both-0123456789abcd",
      REFRESH_TOKEN_SECRET |-> "one-secret-for-both-0123456789abcd"],
     [ACCESS_TOKEN_SECRET |-> "",
      REFRESH_TOKEN_SECRET |-> "refresh-secret-0123456789abcdef012"],
     [ACCESS_TOKEN_SECRET |-> "access-secret-0123456789abcdef0123",
      REFRESH_TOKEN_SECRET |-> ""]}

\* the length below which ensureEnvVariables warns
MinSecretLength == 32

\* ensureEnvVariables returns (TRUE) or throws, upon which the process exits;
\* secrets shorter than MinSecretLength only get a console.warn
ensureEnvVariables(e) ==
    /\ e.ACCESS_TOKEN_SECRET # ""
    /\ e.REFRESH_TOKEN_SECRET # ""

\* the configurations other than Envs with which the process starts to serve
WeakEnvs == {e \in Configurations \ Envs : ensureEnvVariables(e)}

-----------------------------------------------------------------------------
(* jsonwebtoken.  A token string is modelled by what it encodes: the payload *)
(* and the secret whose HMAC it carries.  Two tokens are the same string iff *)
(* payload and secret agree.                                                 *)

Sec(t) == t \div 1000

\* what req.body.refreshToken / the Authorization header holds when absent
NoToken ==
    [userId |-> 0, email |-> "", hasRoles |-> FALSE, roles |-> {},
     iat |-> 0, exp |-> 0, secret |-> "<absent>"]

\* a string that is no JWT
Garbage ==
    [userId |-> 0, email |-> "", hasRoles |-> FALSE, roles |-> {},
     iat |-> 0, exp |-> 0, secret |-> "<malformed>"]

\* jwt.sign(payload, secret, {expiresIn}) at time t: iat and exp in seconds
JwtSign(userId, email, hasRoles, roles, secret, expiresIn, t) ==
    [userId |-> userId, email |-> email, hasRoles |-> hasRoles, roles |-> roles,
     iat |-> Sec(t), exp |-> Sec(t) + expiresIn, secret |-> secret]

\* jwt.verify(token, secret) at time t: malformed, then signature, then exp
JwtVerify(token, secret, t) ==
    IF token.secret = "<malformed>"
    THEN [ok |-> FALSE, name |-> "JsonWebTokenError", message |-> "jwt malformed"]
    ELSE IF token.secret # secret
    THEN [ok |-> FALSE, name |-> "JsonWebTokenError", message |-> "invalid signature"]
    ELSE IF Sec(t) >= token.exp
    THEN [ok |-> FALSE, name |-> "TokenExpiredError", message |-> "jwt expired"]
    ELSE [ok |-> TRUE, name |-> "", message |-> ""]

\* mutant: the access token signed with the refresh secret
generateAccessToken_RefreshSecret(userId, email, roles, t) ==
    JwtSign(userId, email, TRUE, roles, REFRESH_TOKEN_SECRET,
            ACCESS_TOKEN_EXPIRATION, t)

generateAccessToken(userId, email, roles, t) ==
    JwtSign(userId, email, TRUE, roles, ACCESS_TOKEN_SECRET,
            ACCESS_TOKEN_EXPIRATION, t)

\* {token, expiresAt}: the token signed at t, expiresAt from Date.now() = t
generateRefreshTokenData(userId, email, t) ==
    [token |-> JwtSign(userId, email, FALSE, {}, REFRESH_TOKEN_SECRET,
                       REFRESH_TOKEN_EXPIRATION_SECONDS, t),
     expiresAt |-> t + REFRESH_TOKEN_EXPIRATION_SECONDS * 1000]

-----------------------------------------------------------------------------
(* Credential verifier (utils/authUtils) *)

hashPassword(password) == <<"hash", password>>
comparePassword(password, hash) == hash = <<"hash", password>>

-----------------------------------------------------------------------------
(* Request schemas *)

registerSchemaOk(body) == body.email \in Emails /\ body.password \in Passwords
loginSchemaOk(body) == body.email \in Emails /\ body.password # ShortPassword

-----------------------------------------------------------------------------
(* Request bodies tried *)

RegisterBodies ==
    {[email |-> e, password |-> "longenough1"] : e \in Emails}
        \cup {[email |-> BadEmail, password |-> "longenough1"],
              [email |-> "a@x.com", password |-> ShortPassword]}

LoginBodies ==
    {[email |-> e, password |-> p] : e \in Emails, p \in Passwords}
        \cup {[email |-> BadEmail, password |-> "longenough1"],
              [email |-> "a@x.com", password |-> ShortPassword]}

-----------------------------------------------------------------------------
(* Responses and request slots *)

NoUser == [id |-> 0, email |-> "", roles |-> {}]

\* res.status(status).json({message}) ; tokens and user only where sent
Resp(status, message) ==
    [status |-> status, message |-> message, accessToken |-> NoToken,
     refreshToken |-> NoToken, user |-> NoUser]

TokenResp(status, message, accessToken, refreshToken, user) ==
    [status |-> status, message |-> message, accessToken |-> accessToken,
     refreshToken |-> refreshToken, user |-> user]

NoRes == Resp(0, "")

NoBody == [email |-> "", password |-> ""]

\* a request in flight: its input (body, token, ip, ua) and the handler's
\* locals that live across an await (userId, roles, at, expiresAt, newToken,
\* rowId, and owner: the user a query loaded with the record, 0 for none);
\* late: a logout of the presented token had answered 200 when the request
\* arrived; error: the message of the exception the handler caught ("" for none)
Idle ==
    [op |-> "idle", pc |-> "idle", body |-> NoBody, token |-> NoToken,
     ip |-> "", ua |-> "", userId |-> 0, roles |-> {}, at |-> 0, expiresAt |-> 0,
     newToken |-> NoToken, rowId |-> 0, owner |-> 0, rival |-> FALSE,
     again |-> FALSE, late |-> FALSE, required |-> {}, error |-> ""]

\* the latest step's answer: the request (op, body, token, the roles its route
\* requires), whether a refresh of the same token string had been accepted
\* before (again), whether one was accepted while this request was in flight
\* (rival), whether a logout of it had answered 200 before the request arrived
\* (late), the response sent, the claims a middleware attached before calling
\* next(), and how many responses were sent (sent) and how often next() was
\* called without an error (next) for the request
NoLast ==
    [op |-> "none", body |-> NoBody, token |-> NoToken, rival |-> FALSE,
     again |-> FALSE, late |-> FALSE, required |-> {}, error |-> "",
     res |-> NoRes, claims |-> NoToken, sent |-> 0, next |-> 0]

\* the handler of request r has sent res
Answer(r, res) ==
    [op |-> r.op, body |-> r.body, token |-> r.token, rival |-> r.rival,
     again |-> r.again, late |-> r.late, required |-> r.required,
     error |-> r.error, res |-> res, claims |-> NoToken, sent |-> 1, next |-> 0]

\* a middleware has called next() with req.user = claims, sending nothing
Passed(r, claims) ==
    [op |-> r.op, body |-> r.body, token |-> r.token, rival |-> r.rival,
     again |-> r.again, late |-> r.late, required |-> r.required,
     error |-> r.error, res |-> NoRes, claims |-> claims, sent |-> 0, next |-> 1]

\* the handler of request r has ended and nothing was sent
Unanswered(r) == [Answer(r, NoRes) EXCEPT !.sent = 0]

\* mutant: a rejected promise of a handler is nobody's business (Express 4)
ForwardsRejections_Express4 == FALSE

\* Express 5 ("express": "^5.1.0") passes the rejection of the promise a
\* handler returned to next(err), that is to the application's error
\* middleware
ForwardsRejections == TRUE

\* request r after its handler (or Express, for a rejected handler) caught error
Caught(r, error) == [r EXCEPT !.error = error]

\* what the store operations reject with: an INSERT that hits a unique column
\* (QueryFailedError), a findOne that names an unknown relation
\* (EntityPropertyNotFoundError)
UniqueViolation == "QueryFailedError: duplicate key value violates unique constraint"
RelationNotFound ==
    "Property \"users\" was not found in \"RefreshToken\". Make sure your query is correct."
StoreErrors == {UniqueViolation, RelationNotFound}

\* the response of the latest step has left the server
Ready == last = NoLast

\* a new request is taken into the first idle slot
Free(s) ==
    /\ Ready
    /\ reqs[s].pc = "idle"
    /\ \A x \in Slots : x < s => reqs[x].pc # "idle"

InFlight(op) == Cardinality({s \in Slots : reqs[s].op = op})

RegisteringEmails == {reqs[s].body.email : s \in {x \in Slots : reqs[x].op = "register"}}

-----------------------------------------------------------------------------
(* Tables *)

UserByEmail(email) == {i \in 1 .. Len(users) : users[i].email = email}

PublicUser(u) == [id |-> u.id, email |-> u.email, roles |-> u.roles]

\* the service after startup with a configuration of E
Start(E) ==
    /\ now = 0
    /\ ticks = 0
    /\ version \in {1, 2}
    /\ env \in E
    /\ users = <<>>
    /\ refreshTokens = <<>>
    /\ reqs = [s \in Slots |-> Idle]
    /\ last = NoLast
    /\ issued = {}
    /\ refreshedOK = {}
    /\ loggedOut = {}

Init == Start(Envs)

InitWeakEnv == Start(WeakEnvs)

\* time passes
Tick ==
    /\ Ready
    /\ ticks < MaxTicks
    /\ \E d \in ClockSteps :
        /\ now + d <= MaxClock
        /\ now' = now + d
    /\ ticks' = ticks + 1
    /\ last' = NoLast
    /\ UNCHANGED <<version, env, users, refreshTokens, reqs, issued,
                   refreshedOK, loggedOut>>

\* the roles the user-management side gives a principal besides the default
GrantedRoles == {"user", "admin"}

\* the roles column of a user is changed from outside the service (the service
\* itself only ever writes the default and what login loaded)
ChangeRoles ==
    /\ Ready
    /\ \E i \in 1 .. Len(users) :
        /\ users[i].roles # GrantedRoles
        /\ users' = [users EXCEPT ![i].roles = GrantedRoles]
    /\ last' = NoLast
    /\ UNCHANGED <<now, ticks, version, env, refreshTokens, reqs, issued,
                   refreshedOK, loggedOut>>

\* a record loses its owner from outside the service: the join column of the
\* `user` relation is nullable and is not the user_id column the queries
\* filter on, so the record is still found and its relation loads as null
OwnerLost ==
    /\ Ready
    /\ \E i \in 1 .. Len(refreshTokens) :
        /\ refreshTokens[i].user # 0
        /\ refreshTokens' = [refreshTokens EXCEPT ![i].user = 0]
    /\ last' = NoLast
    /\ UNCHANGED <<now, ticks, version, env, users, reqs, issued,
                   refreshedOK, loggedOut>>

-----------------------------------------------------------------------------
(* AuthService.register (both revisions are the same code) *)

\* validation, then `await userRepository.findOneBy({ email })`
RegisterFind(s) ==
    /\ Free(s)
    /\ \E body \in RegisterBodies :
        LET email == body.email
            r == [Idle EXCEPT !.op = "register", !.body = body]
        IN  IF ~registerSchemaOk(body)
            THEN /\ last' = Answer(r, Resp(400, "validation errors"))
                 /\ reqs' = reqs
            ELSE IF UserByEmail(email) # {}
            THEN /\ last' = Answer(r, Resp(409, "User with this email already exists"))
                 /\ reqs' = reqs
            ELSE /\ Len(users) + Cardinality(RegisteringEmails \cup {email}) <= MaxUsers
                 /\ last' = NoLast
                 /\ reqs' = [reqs EXCEPT ![s] = [r EXCEPT !.pc = "regSave"]]
    /\ UNCHANGED <<now, ticks, version, env, users, refreshTokens, issued,
                   refreshedOK, loggedOut>>

\* `await userRepository.save(newUser)`: INSERT; email is a unique column
RegisterSave(s) ==
    /\ Ready
    /\ reqs[s].pc = "regSave"
    /\ LET r == reqs[s]
           id == Len(users) + 1
       IN  IF UserByEmail(r.body.email) # {}
           THEN /\ last' = Answer(Caught(r, UniqueViolation),
                                Resp(500, "Internal server error during registration."))
                /\ users' = users
           ELSE /\ users' = Append(users,
                        [id |-> id, email |-> r.body.email,
                         hashedPassword |-> hashPassword(r.body.password),
                         roles |-> {"user"}, lastLoginAt |-> NULL])
                /\ last' = Answer(r, TokenResp(201, "User registered successfully!",
                                NoToken, NoToken,
                                [id |-> id, email |-> r.body.email, roles |-> {}]))
    /\ reqs' = [reqs EXCEPT ![s] = Idle]
    /\ UNCHANGED <<now, ticks, version, env, refreshTokens, issued,
                   refreshedOK, loggedOut>>

-----------------------------------------------------------------------------
(* AuthService.login *)

\* mutant: an unknown email answered as not found
UnknownEmailResponse_NotFound == Resp(404, "User not found")

\* what login sends when no user has the email (lines 130-134)
UnknownEmailResponse == Resp(401, "Invalid credentials")

\* what login sends when the password does not match (lines 141-144)
WrongPasswordResponse == Resp(401, "Invalid credentials")

\* mutant: last_login_at is written before the password is compared
AfterWrongPassword_TouchesLastLogin(user) ==
    [users EXCEPT ![user.id].lastLoginAt = now]

\* table users after the 401 for a wrong password: the handler returns
\* (lines 141-144) before `user.lastLoginAt = new Date()` and save (147-148)
AfterWrongPassword(user) == users

\* validation, `await userRepository.findOneBy({ email })`,
\* `await comparePassword(...)`, then user.lastLoginAt = new Date()
LoginFind(s) ==
    /\ Free(s)
    /\ \E body \in LoginBodies, ip \in ClientIps, ua \in UserAgents :
        LET email == body.email
            password == body.password
            r == [Idle EXCEPT !.op = "login", !.body = body, !.ip = ip, !.ua = ua]
            found == UserByEmail(email)
        IN  IF ~loginSchemaOk(body)
            THEN /\ last' = Answer(r, Resp(400, "validation errors"))
                 /\ reqs' = reqs
                 /\ users' = users
            ELSE IF found = {}
            THEN /\ last' = Answer(r, UnknownEmailResponse)
                 /\ reqs' = reqs
                 /\ users' = users
            ELSE LET user == users[CHOOSE i \in found : TRUE]
                 IN  IF ~comparePassword(password, user.hashedPassword)
                     THEN /\ last' = Answer(r, WrongPasswordResponse)
                          /\ reqs' = reqs
                          /\ users' = AfterWrongPassword(user)
                     ELSE /\ Len(refreshTokens) + InFlight("login") < MaxTokens
                          /\ last' = NoLast
                          /\ reqs' = [reqs EXCEPT ![s] =
                                [r EXCEPT !.pc = "loginSaveUser", !.userId = user.id,
                                          !.roles = user.roles, !.at = now]]
                          /\ users' = users
    /\ UNCHANGED <<now, ticks, version, env, refreshTokens, issued,
                   refreshedOK, loggedOut>>

\* `await userRepository.save(user)` writes the entity login loaded, with its
\* new last_login_at, over the row; then the two tokens are signed and the
\* refresh_tokens entity is created
LoginSaveUser(s) ==
    /\ Ready
    /\ reqs[s].pc = "loginSaveUser"
    /\ LET r == reqs[s]
           user == users[r.userId]
           data == generateRefreshTokenData(user.id, user.email, now)
       IN  /\ users' = [users EXCEPT ![r.userId].lastLoginAt = r.at,
                                     ![r.userId].roles = r.roles]
           /\ reqs' = [reqs EXCEPT ![s] =
                [r EXCEPT !.pc = "loginSaveToken", !.at = now,
                          !.newToken = data.token, !.expiresAt = data.expiresAt]]
    /\ last' = NoLast
    /\ UNCHANGED <<now, ticks, version, env, refreshTokens, issued,
                   refreshedOK, loggedOut>>

TokenRows(token) == {i \in 1 .. Len(refreshTokens) : refreshTokens[i].token = token}

\* mutant: a colliding token string overwrites the record that holds it
InsertRefreshToken_Upsert(row) ==
    IF TokenRows(row.token) # {}
    THEN LET i == CHOOSE x \in TokenRows(row.token) : TRUE
         IN  [ok |-> TRUE,
              table |-> [refreshTokens EXCEPT ![i] = [row EXCEPT !.id = i]]]
    ELSE [ok |-> TRUE, table |-> Append(refreshTokens, row)]

\* INSERT INTO refresh_tokens: the unique index on token rejects a second row
\* with the same token string
InsertRefreshToken(row) ==
    IF TokenRows(row.token) # {}
    THEN [ok |-> FALSE, table |-> refreshTokens]
    ELSE [ok |-> TRUE, table |-> Append(refreshTokens, row)]

\* what login's catch block sends: revision 1 a fixed 500, revision 2 the
\* caught error object with status 200
LoginCatch(r, error) ==
    IF version = 1
    THEN Answer(Caught(r, error), Resp(500, "Internal server error during login."))
    ELSE Answer(Caught(r, error), Resp(200, error))

\* mutant: the record without the client's address and user agent
NewRefreshToken_NoClientMeta(r, user) ==
    [id |-> Len(refreshTokens) + 1, token |-> r.newToken,
     userId |-> user.id, user |-> user.id, expiresAt |-> r.expiresAt,
     revokedAt |-> NULL, ipAddress |-> "", userAgent |-> ""]

\* refreshTokenRepository.create({ user, token, userId, expiresAt, ipAddress,
\* userAgent }); revokedAt is a nullable column without a value
NewRefreshToken(r, user) ==
    [id |-> Len(refreshTokens) + 1, token |-> r.newToken,
     userId |-> user.id, user |-> user.id, expiresAt |-> r.expiresAt,
     revokedAt |-> NULL, ipAddress |-> r.ip, userAgent |-> r.ua]

\* `await refreshTokenRepository.save(newRefreshToken)`: INSERT (token is a
\* unique column), then the response
LoginSaveToken(s) ==
    /\ Ready
    /\ reqs[s].pc = "loginSaveToken"
    /\ LET r == reqs[s]
           user == [users[r.userId] EXCEPT !.roles = r.roles]
           accessToken == generateAccessToken(user.id, user.email, user.roles, r.at)
           row == NewRefreshToken(r, user)
           saved == InsertRefreshToken(row)
       IN  IF ~saved.ok
           THEN /\ last' = LoginCatch(r, UniqueViolation)
                /\ UNCHANGED <<refreshTokens, issued>>
           ELSE /\ refreshTokens' = saved.table
                /\ issued' = issued \cup {accessToken, r.newToken}
                /\ last' = Answer(r, TokenResp(200, "Logged in successfully!",
                                accessToken, r.newToken, PublicUser(user)))
    /\ reqs' = [reqs EXCEPT ![s] = Idle]
    /\ UNCHANGED <<now, ticks, version, env, users, refreshedOK, loggedOut>>

-----------------------------------------------------------------------------
(* Tokens a client can present: those a login returned, the same payloads    *)
(* signed by somebody without the secret, a string that is no JWT, nothing.  *)

Forged == {[t EXCEPT !.secret = AttackerSecret] : t \in issued}

PresentedTokens == issued \cup Forged \cup {Garbage, NoToken}

-----------------------------------------------------------------------------
(* AuthService.getRefreshToken, revision 1 (lines 188-316) *)

\* what revision 1 sends when jwt.verify throws (catch block, lines 301-305)
RefreshVerifyFailure == Resp(401, "Invalid or malformed refresh token.")

\* what revision 1 sends when findOne returns no record (lines 236-242)
RefreshRecordFailure ==
    Resp(401, "Invalid, revoked, or expired refresh token. Please log in again.")

\* the body check, jwt.verify and the evaluation of findOne's arguments
\* (decoded.userId, new Date()); the query itself is RefreshFind
RefreshStart(s) ==
    /\ version = 1
    /\ Free(s)
    /\ \E token \in PresentedTokens :
        LET r == [Idle EXCEPT !.op = "refresh", !.token = token,
                              !.again = token \in refreshedOK,
                              !.late = token \in loggedOut]
            v == JwtVerify(token, REFRESH_TOKEN_SECRET, now)
        IN  IF token = NoToken
            THEN /\ last' = Answer(r, Resp(400, "Refresh Token not provided."))
                 /\ reqs' = reqs
            ELSE IF REFRESH_TOKEN_SECRET = ""
            THEN /\ last' = Answer(Caught(r, "REFRESH_TOKEN_SECRET is not defined."),
                                 Resp(500, "Internal server error during token refresh."))
                 /\ reqs' = reqs
            ELSE IF ~v.ok
            THEN /\ last' = Answer(r, RefreshVerifyFailure)
                 /\ reqs' = reqs
            ELSE /\ last' = NoLast
                 /\ reqs' = [reqs EXCEPT ![s] =
                        [r EXCEPT !.pc = "refreshFind", !.userId = token.userId,
                                  !.at = now]]
    /\ UNCHANGED <<now, ticks, version, env, users, refreshTokens, issued,
                   refreshedOK, loggedOut>>

\* mutant: the query without revokedAt: IsNull()
FindActive_IgnoresRevoked(userId, token, at) ==
    {i \in 1 .. Len(refreshTokens) :
        /\ refreshTokens[i].userId = userId
        /\ refreshTokens[i].token = token
        /\ refreshTokens[i].expiresAt > at}

\* mutant: the query without the token string
FindActive_AnyTokenOfUser(userId, token, at) ==
    {i \in 1 .. Len(refreshTokens) :
        /\ refreshTokens[i].userId = userId
        /\ refreshTokens[i].revokedAt = NULL
        /\ refreshTokens[i].expiresAt > at}

\* refreshTokenRepository.findOne({where: {userId, token, revokedAt: IsNull(),
\* expiresAt: MoreThan(at)}, relations: ["user"]})
FindActive(userId, token, at) ==
    {i \in 1 .. Len(refreshTokens) :
        /\ refreshTokens[i].userId = userId
        /\ refreshTokens[i].token = token
        /\ refreshTokens[i].revokedAt = NULL
        /\ refreshTokens[i].expiresAt > at}

\* mutant: a newly signed refresh token is sent back
RefreshTokenToReturn_Fresh(presented, row) ==
    generateRefreshTokenData(row.userId, presented.email, now).token

\* the refresh token string revision 1 sends back (line 298)
RefreshTokenToReturn(presented, row) == presented

\* mutant: the roles are not read from the loaded user
RefreshRoles_Default(row) == {"user"}

\* storedRefreshToken.user.roles: the roles of the user row findOne joined
RefreshRoles(row) == users[row.user].roles

\* a refresh of r.token has been accepted: the requests for the same token
\* still in flight have a rival
MarkRivals(s, token) ==
    [x \in Slots |->
        IF x = s THEN Idle
        ELSE IF reqs[x].op = "refresh" /\ reqs[x].token = token
        THEN [reqs[x] EXCEPT !.rival = TRUE]
        ELSE reqs[x]]

\* `await refreshTokenRepository.findOne(...)` (lines 226-234): the database
\* runs the query; its result, the record and the user loaded with it, is what
\* the handler gets when the await resumes
RefreshFind(s) ==
    /\ Ready
    /\ reqs[s].pc = "refreshFind"
    /\ LET r == reqs[s]
           found == FindActive(r.userId, r.token, r.at)
       IN  IF found = {}
           THEN reqs' = [reqs EXCEPT ![s] = [r EXCEPT !.pc = "refreshRespond"]]
           ELSE LET i == CHOOSE j \in found : TRUE
                    row == refreshTokens[i]
                IN  IF row.user \notin 1 .. Len(users)
                    THEN reqs' = [reqs EXCEPT ![s] =
                            [r EXCEPT !.pc = "refreshRespond", !.rowId = i]]
                    ELSE reqs' = [reqs EXCEPT ![s] =
                            [r EXCEPT !.pc = "refreshRespond", !.rowId = i,
                                      !.owner = row.user,
                                      !.roles = RefreshRoles(row)]]
    /\ last' = NoLast
    /\ UNCHANGED <<now, ticks, version, env, users, refreshTokens, issued,
                   refreshedOK, loggedOut>>

\* mutant: a refused refresh revokes every record of the user the token names
AfterRefusal_RevokesSessions(r) ==
    [i \in 1 .. Len(refreshTokens) |->
        IF refreshTokens[i].userId = r.userId /\ refreshTokens[i].revokedAt = NULL
        THEN [refreshTokens[i] EXCEPT !.revokedAt = now]
        ELSE refreshTokens[i]]

\* the table after a 401 of the handler: each refusal is `res.status(401)
\* .json(...)` followed by `return`, with no write before it
AfterRefusal(r) == refreshTokens

\* the handler after the await (lines 236-299): the checks on the loaded
\* record and the response
RefreshRespond(s) ==
    /\ Ready
    /\ reqs[s].pc = "refreshRespond"
    /\ LET r == [reqs[s] EXCEPT !.again = reqs[s].token \in refreshedOK]
       IN  IF r.rowId = 0
           THEN /\ last' = Answer(r, RefreshRecordFailure)
                /\ reqs' = [reqs EXCEPT ![s] = Idle]
                /\ refreshedOK' = refreshedOK
                /\ refreshTokens' = AfterRefusal(r)
           ELSE LET row == refreshTokens[r.rowId]
                IN  IF r.owner = 0
                    THEN /\ last' = Answer(r, Resp(401,
                                "User associated with refresh token not found or could not be loaded."))
                         /\ reqs' = [reqs EXCEPT ![s] = Idle]
                         /\ refreshedOK' = refreshedOK
                         /\ refreshTokens' = AfterRefusal(r)
                    ELSE IF r.userId # row.userId
                    THEN /\ last' = Answer(r, Resp(401,
                                "Invalid refresh token payload: User ID mismatch."))
                         /\ reqs' = [reqs EXCEPT ![s] = Idle]
                         /\ refreshedOK' = refreshedOK
                         /\ refreshTokens' = AfterRefusal(r)
                    ELSE LET user == users[r.owner]
                             newAccessToken ==
                                 generateAccessToken(user.id, user.email,
                                                     r.roles, now)
                         IN  /\ last' = Answer(r, TokenResp(200, "", newAccessToken,
                                        RefreshTokenToReturn(r.token, row), NoUser))
                             /\ reqs' = MarkRivals(s, r.token)
                             /\ refreshedOK' = refreshedOK \cup {r.token}
                             /\ refreshTokens' = refreshTokens
    /\ UNCHANGED <<now, ticks, version, env, users, issued, loggedOut>>

-----------------------------------------------------------------------------
(* AuthService.getRefreshToken, revision 2 (lines 550-615) *)

\* the relations of entity RefreshToken (RefreshToken.ts:27-29)
RefreshTokenRelations == {"user"}

\* revision 2 asks findOne for relations: ["users"].  TypeORM builds the joins
\* from the entity's metadata and rejects the query when a requested name is
\* no relation of the entity (EntityPropertyNotFoundError), before the
\* database is queried.
FindOneRejects(relations) == ~(relations \subseteq RefreshTokenRelations)

\* A missing token throws outside the try block: the promise rejects and
\* Express passes the error to the application's error middleware
\* (app.ts:71-74).  Inside the try block jwt.verify throws or findOne rejects;
\* the catch block answers 400 with the error's message.  Lines 564-611 (the
\* checks, the revocation and the new record) run only after findOne
\* resolves, which it never does.
RefreshV2(s) ==
    /\ version = 2
    /\ Free(s)
    /\ \E token \in PresentedTokens :
        LET r == [Idle EXCEPT !.op = "refresh", !.token = token,
                              !.again = token \in refreshedOK,
                              !.late = token \in loggedOut]
            v == JwtVerify(token, REFRESH_TOKEN_SECRET, now)
        IN  /\ last' =
                IF token = NoToken
                THEN IF ForwardsRejections
                     THEN Answer(Caught(r, "Refresh Token not found"),
                                 Resp(500, "Something broke!"))
                     ELSE Unanswered(Caught(r, "Refresh Token not found"))
                ELSE IF ~v.ok
                THEN Answer(r, Resp(400, v.message))
                ELSE IF FindOneRejects({"users"})
                THEN Answer(Caught(r, RelationNotFound), Resp(400, RelationNotFound))
                ELSE Answer(Caught(r, "No Refresh Token found"),
                            Resp(400, "No Refresh Token found"))
    /\ UNCHANGED <<now, ticks, version, env, users, refreshTokens, reqs, issued,
                   refreshedOK, loggedOut>>

-----------------------------------------------------------------------------
(* AuthService.logout (revision 1 only, lines 319-349) *)

\* refreshTokenRepository.findOne({where: {token, revokedAt: IsNull()}})
FindToRevoke(token) ==
    {i \in 1 .. Len(refreshTokens) :
        /\ refreshTokens[i].token = token
        /\ refreshTokens[i].revokedAt = NULL}

\* the body check, `await findOne(...)`, then tokenToRevoke.revokedAt = new Date()
LogoutFind(s) ==
    /\ version = 1
    /\ Free(s)
    /\ \E token \in PresentedTokens :
        LET r == [Idle EXCEPT !.op = "logout", !.token = token]
            found == FindToRevoke(token)
        IN  IF token = NoToken
            THEN /\ last' = Answer(r, Resp(400, "Refresh Token not provided."))
                 /\ reqs' = reqs
            ELSE IF found = {}
            THEN /\ last' = Answer(r, Resp(404, "Refresh token not found or already revoked."))
                 /\ reqs' = reqs
            ELSE /\ last' = NoLast
                 /\ reqs' = [reqs EXCEPT ![s] =
                        [r EXCEPT !.pc = "logoutSave",
                                  !.rowId = CHOOSE i \in found : TRUE, !.at = now]]
    /\ UNCHANGED <<now, ticks, version, env, users, refreshTokens, issued,
                   refreshedOK, loggedOut>>

\* the value logout writes into revoked_at
RevokedAtToSave(r) == r.at

\* mutant: revoking also moves the record's expiry to the time of revocation
Revoke_ExpiresNow(row, at) == [row EXCEPT !.revokedAt = at, !.expiresAt = at]

\* the entity logout saves: the record it read with revokedAt set (line 337)
Revoke(row, at) == [row EXCEPT !.revokedAt = at]

\* `await refreshTokenRepository.save(tokenToRevoke)`: UPDATE of revoked_at
LogoutSave(s) ==
    /\ Ready
    /\ reqs[s].pc = "logoutSave"
    /\ LET r == reqs[s]
       IN  /\ refreshTokens' =
                [refreshTokens EXCEPT
                    ![r.rowId] = Revoke(refreshTokens[r.rowId], RevokedAtToSave(r))]
           /\ last' = Answer(r, Resp(200, "Logged out successfully."))
           /\ loggedOut' = loggedOut \cup {r.token}
    /\ reqs' = [reqs EXCEPT ![s] = Idle]
    /\ UNCHANGED <<now, ticks, version, env, users, issued, refreshedOK>>

-----------------------------------------------------------------------------
(* The authentication middleware: AuthService.authenticateToken of revision *)
(* 1 ("service"), the middleware that answers itself ("direct") and the one  *)
(* that passes errors to errorHandler ("errors").                            *)

\* errorHandler: what it sends for the error a middleware passed to next()
errorHandler(name, message) ==
    IF name = "AuthenticationError" THEN Resp(401, message)
    ELSE IF name = "AuthorizationError" THEN Resp(403, message)
    ELSE IF name = "TokenExpiredError"
    THEN Resp(401, "Authentication failed: Token has expired.")
    ELSE IF name = "JsonWebTokenError" THEN Resp(403, "Invalid or malformed token.")
    ELSE Resp(500, message)

\* the secret the middleware verifies with
MiddlewareSecret(variant) ==
    IF variant = "errors" /\ ACCESS_TOKEN_SECRET = ""
    THEN "supersecretaccesskey"
    ELSE ACCESS_TOKEN_SECRET

\* what a failed verification is answered with
AuthFailure(variant, v) ==
    IF variant = "service" THEN Resp(403, "Invalid or expired access token.")
    ELSE IF variant = "direct" THEN Resp(403, "Access Denied: Invalid or expired token")
    ELSE errorHandler(v.name, v.message)

AuthMissing(variant) ==
    IF variant = "service" THEN Resp(401, "Access token required.")
    ELSE IF variant = "direct" THEN Resp(401, "Access Denied: No token provided")
    ELSE errorHandler("AuthenticationError", "No authentication token provided.")

\* mutant: the middleware verifies with ignoreExpiration
AuthVerify_IgnoreExpiration(variant, token) ==
    JwtVerify([token EXCEPT !.exp = Sec(now) + 1], MiddlewareSecret(variant), now)

\* mutant: the middleware also requires an un-revoked record of the subject
AuthVerify_RequiresSession(variant, token) ==
    IF \E i \in 1 .. Len(refreshTokens) :
            /\ refreshTokens[i].userId = token.userId
            /\ refreshTokens[i].revokedAt = NULL
    THEN JwtVerify(token, MiddlewareSecret(variant), now)
    ELSE [ok |-> FALSE, name |-> "JsonWebTokenError", message |-> "session revoked"]

\* jwt.verify(token, ACCESS_TOKEN_SECRET, callback) in the middleware
AuthVerify(variant, token) == JwtVerify(token, MiddlewareSecret(variant), now)

MiddlewareVariants == IF version = 1 THEN {"service", "direct", "errors"}
                      ELSE {"direct", "errors"}

\* the whole middleware: it is synchronous and reads no table
AuthenticateRequest ==
    /\ Ready
    /\ \E variant \in MiddlewareVariants, token \in PresentedTokens :
        LET r == [Idle EXCEPT !.op = "authenticate", !.token = token]
            v == AuthVerify(variant, token)
        IN  last' =
                IF token = NoToken THEN Answer(r, AuthMissing(variant))
                ELSE IF variant = "service" /\ ACCESS_TOKEN_SECRET = ""
                THEN Answer(r, Resp(500, "Server configuration error."))
                ELSE IF ~v.ok THEN Answer(r, AuthFailure(variant, v))
                ELSE Passed(r, token)
    /\ UNCHANGED <<now, ticks, version, env, users, refreshTokens, reqs, issued,
                   refreshedOK, loggedOut>>

-----------------------------------------------------------------------------
(* authorizeRoles(requiredRoles): the middleware a route puts after           *)
(* authenticateToken.  It reads req.user and its argument only.               *)

RoleNames == {"user", "admin", "editor"}

\* req.user as authenticateToken leaves it: absent, or the payload of an access
\* token (generateAccessToken always puts roles in it)
ClaimsTried ==
    {generateAccessToken(id, "a@x.com", roles, 0) :
        id \in 1 .. MaxSubjects, roles \in SUBSET RoleNames}

\* mutant: every required role must be among the claims' roles
hasPermission_Every(requiredRoles, user) == requiredRoles \subseteq user.roles

\* requiredRoles.some((role) => req.user.roles.includes(role))
hasPermission(requiredRoles, user) == requiredRoles \cap user.roles # {}

\* the middleware for request r: next(error) reaches errorHandler, next()
\* passes the request on
authorizeRoles(requiredRoles, r) ==
    IF r.token = NoToken
    THEN Answer(r, errorHandler("AuthenticationError",
                        "User not authenticated for authorization check."))
    ELSE IF hasPermission(requiredRoles, r.token)
    THEN Passed(r, r.token)
    ELSE Answer(r, errorHandler("AuthorizationError",
            "You do not have the necessary permissions to access this resource."))

\* a request reaches a route guarded by authorizeRoles(requiredRoles)
AuthorizeRequest ==
    /\ Ready
    /\ \E requiredRoles \in SUBSET RoleNames, user \in ClaimsTried \cup {NoToken} :
        last' = authorizeRoles(requiredRoles,
                    [Idle EXCEPT !.op = "authorize", !.token = user,
                                 !.required = requiredRoles])
    /\ UNCHANGED <<now, ticks, version, env, users, refreshTokens, reqs, issued,
                   refreshedOK, loggedOut>>

-----------------------------------------------------------------------------
\* the response written by the latest step is on the wire; the next step of
\* any handler starts from there
Deliver ==
    /\ ~Ready
    /\ last' = NoLast
    /\ UNCHANGED <<now, ticks, version, env, users, refreshTokens, reqs, issued,
                   refreshedOK, loggedOut>>

Next ==
    \/ Tick
    \/ \E s \in Slots : RegisterFind(s)
    \/ \E s \in Slots : RegisterSave(s)
    \/ \E s \in Slots : LoginFind(s)
    \/ \E s \in Slots : LoginSaveUser(s)
    \/ \E s \in Slots : LoginSaveToken(s)
    \/ \E s \in Slots : RefreshStart(s)
    \/ \E s \in Slots : RefreshFind(s)
    \/ \E s \in Slots : RefreshRespond(s)
    \/ \E s \in Slots : RefreshV2(s)
    \/ \E s \in Slots : LogoutFind(s)
    \/ \E s \in Slots : LogoutSave(s)
    \/ AuthenticateRequest
    \/ Deliver

Spec == Init /\ [][Next]_vars

\* authorizeRoles applied to every req.user and requiredRoles tried
NextAuthorize == AuthorizeRequest \/ Deliver

SpecAuthorize == Init /\ [][NextAuthorize]_vars

\* the handlers that read or write a user's roles (register, login, refresh)
\* together with the user-management side that changes them
NextWithRoles ==
    \/ Tick
    \/ \E s \in Slots : RegisterFind(s)
    \/ \E s \in Slots : RegisterSave(s)
    \/ \E s \in Slots : LoginFind(s)
    \/ \E s \in Slots : LoginSaveUser(s)
    \/ \E s \in Slots : LoginSaveToken(s)
    \/ \E s \in Slots : RefreshStart(s)
    \/ \E s \in Slots : RefreshFind(s)
    \/ \E s \in Slots : RefreshRespond(s)
    \/ \E s \in Slots : RefreshV2(s)
    \/ ChangeRoles
    \/ Deliver

\* the handlers that sign or verify a token
NextWeakEnv ==
    \/ Tick
    \/ \E s \in Slots : RegisterFind(s)
    \/ \E s \in Slots : RegisterSave(s)
    \/ \E s \in Slots : LoginFind(s)
    \/ \E s \in Slots : LoginSaveUser(s)
    \/ \E s \in Slots : LoginSaveToken(s)
    \/ \E s \in Slots : RefreshStart(s)
    \/ \E s \in Slots : RefreshFind(s)
    \/ \E s \in Slots : RefreshRespond(s)
    \/ \E s \in Slots : RefreshV2(s)
    \/ AuthenticateRequest
    \/ Deliver

\* these handlers in a service started with a configuration of WeakEnvs
SpecWeakEnv == InitWeakEnv /\ [][NextWeakEnv]_vars

\* register, login and refresh over a table whose records can lose their owner
NextWithCorruption ==
    \/ Tick
    \/ \E s \in Slots : RegisterFind(s)
    \/ \E s \in Slots : RegisterSave(s)
    \/ \E s \in Slots : LoginFind(s)
    \/ \E s \in Slots : LoginSaveUser(s)
    \/ \E s \in Slots : LoginSaveToken(s)
    \/ \E s \in Slots : RefreshStart(s)
    \/ \E s \in Slots : RefreshFind(s)
    \/ \E s \in Slots : RefreshRespond(s)
    \/ \E s \in Slots : RefreshV2(s)
    \/ OwnerLost
    \/ Deliver

SpecWithCorruption == Init /\ [][NextWithCorruption]_vars

SpecWithRoles == Init /\ [][NextWithRoles]_vars

-----------------------------------------------------------------------------
(* Properties *)

IssuedRefresh == {t \in issued : ~t.hasRoles}
IssuedAccess == {t \in issued : t.hasRoles}

\* the record of a token string is ACTIVE at time t
Active(row, t) == row.revokedAt = NULL /\ t < row.expiresAt

\* token has an ACTIVE record and its signature has not expired
Live(token) ==
    /\ Sec(now) < token.exp
    /\ \E i \in TokenRows(token) : Active(refreshTokens[i], now)

\* the failure a refresh reports for a token it does not accept
InvalidOrExpiredToken(res) == res.status = 401

RefreshAnswered == last.op = "refresh"

\* C1: under rotation a refresh token issued by login is accepted exactly
\* once: the first refresh of it (while it is live) succeeds, and every
\* refresh of the same string after an accepted one fails with
\* InvalidOrExpiredToken.
C1_RefreshSucceedsExactlyOnce ==
    [][(last'.op = "refresh" /\ last'.token \in IssuedRefresh) =>
          /\ (last'.token \notin refreshedOK /\ Live(last'.token))
                => last'.res.status = 200
          /\ last'.token \in refreshedOK
                => InvalidOrExpiredToken(last'.res)]_vars

\* C2: of the refresh requests that present the same token string and are in
\* flight together, one is accepted and every other one (answered after a
\* rival was accepted) fails with InvalidOrExpiredToken.
C2_ConcurrentRefreshOneWinner ==
    (RefreshAnswered /\ last.rival) => InvalidOrExpiredToken(last.res)

\* C3: once a logout of a token has answered 200, every refresh of that token
\* string that arrives afterwards fails with InvalidOrExpiredToken.
C3_RefreshAfterLogoutFails ==
    (RefreshAnswered /\ last.late) => InvalidOrExpiredToken(last.res)

C3_Witness ==
    /\ RefreshAnswered
    /\ last.late
    /\ last.res.status = 401
    /\ Sec(now) < last.token.exp

\* C4: no step sets a record's revokedAt back to null or moves its expiresAt
\* forward, and a record that is not ACTIVE (revoked, or expired) is not
\* ACTIVE after the step either; no step removes a record.
C4_RevokedAndExpiredAreTerminal ==
    [][/\ Len(refreshTokens') >= Len(refreshTokens)
       /\ \A i \in 1 .. Len(refreshTokens) :
            /\ refreshTokens[i].revokedAt # NULL => refreshTokens'[i].revokedAt # NULL
            /\ refreshTokens'[i].expiresAt <= refreshTokens[i].expiresAt
            /\ ~Active(refreshTokens[i], now) => ~Active(refreshTokens'[i], now')]_vars

\* a revoked record whose token string has just been presented again: to a
\* login that signed the same string, or to a logout
C4_Witness ==
    /\ last.op \in {"login", "logout"}
    /\ last.res.status \in {404, 500}
    /\ \E i \in 1 .. Len(refreshTokens) :
        /\ refreshTokens[i].revokedAt # NULL
        /\ last.op = "logout" => refreshTokens[i].token = last.token

\* C5: a refresh is accepted only if, when its query ran, a record with
\* exactly the presented token string existed with revokedAt null, an
\* expiresAt later than the clock value the request read, and the owner the
\* token names; a refresh that is not accepted sends no token and no refresh
\* changes the table.
C5_RefreshOnlyForUsableRecord ==
    [][\A s \in Slots :
        /\ (reqs[s].pc = "refreshFind" /\ reqs'[s].pc = "refreshRespond"
                /\ reqs'[s].rowId # 0) =>
                LET row == refreshTokens[reqs'[s].rowId]
                IN  /\ row.token = reqs[s].token
                    /\ row.revokedAt = NULL
                    /\ reqs[s].at < row.expiresAt
                    /\ row.userId = reqs[s].token.userId
        /\ (reqs[s].op = "refresh" /\ reqs'[s].op = "idle" /\ last'.op = "refresh") =>
            /\ last'.res.status = 200 => reqs[s].rowId # 0
            /\ last'.res.status # 200 =>
                /\ last'.res.accessToken = NoToken
                /\ last'.res.refreshToken = NoToken
        /\ ((reqs[s].op = "refresh" \/ reqs'[s].op = "refresh")
                /\ reqs'[s] # reqs[s]) => refreshTokens' = refreshTokens]_vars

\* a refresh refused because the record of its (validly signed, unexpired)
\* token is revoked, while another record of the same owner is ACTIVE
C5_Witness ==
    /\ RefreshAnswered
    /\ last.res.status = 401
    /\ Sec(now) < last.token.exp
    /\ \E i \in TokenRows(last.token) : refreshTokens[i].revokedAt # NULL
    /\ \E i \in 1 .. Len(refreshTokens) :
        /\ refreshTokens[i].userId = last.token.userId
        /\ Active(refreshTokens[i], now)

\* the id of the principal with this email (0 when there is none)
PrincipalId(email) ==
    IF UserByEmail(email) = {} THEN 0 ELSE users[CHOOSE i \in UserByEmail(email) : TRUE].id

\* C6: the access token a successful login returns is the principal's, and
\* presenting it to the authentication middleware before its expiry passes
\* the request on with claims whose subject id is the principal's id.
C6_LoginThenAuthenticate ==
    /\ (last.op = "login" /\ last.res.accessToken # NoToken) =>
            /\ last.res.accessToken \in IssuedAccess
            /\ last.res.accessToken.email = last.body.email
            /\ last.res.accessToken.userId = PrincipalId(last.body.email)
    /\ (last.op = "authenticate" /\ last.token \in IssuedAccess
            /\ Sec(now) < last.token.exp) =>
            /\ last.res = NoRes
            /\ last.claims.userId = PrincipalId(last.token.email)
            /\ last.claims.userId # 0

C6_Witness ==
    /\ last.op = "authenticate"
    /\ last.token \in IssuedAccess
    /\ last.res = NoRes
    /\ last.claims.userId = PrincipalId(last.token.email)

\* C7: an access token presented after its expiry is refused with the
\* invalid-or-expired failure (401 or 403 by middleware) although its
\* signature is correct; the request is not passed on and gets no claims.
C7_ExpiredAccessTokenRefused ==
    (last.op = "authenticate" /\ last.token.secret = ACCESS_TOKEN_SECRET
        /\ Sec(now) >= last.token.exp) =>
            /\ last.res.status \in {401, 403}
            /\ last.claims = NoToken

C7_Witness ==
    /\ last.op = "authenticate"
    /\ last.token \in IssuedAccess
    /\ last.token.secret = ACCESS_TOKEN_SECRET
    /\ Sec(now) >= last.token.exp
    /\ last.res.status \in {401, 403}

\* C8: a login with an email no principal has and a login with an existing
\* email and a wrong password are answered with the same status and body.
C8_LoginFailuresIndistinguishable ==
    (last.op = "login" /\ loginSchemaOk(last.body)) =>
        /\ UserByEmail(last.body.email) = {} => last.res = WrongPasswordResponse
        /\ (UserByEmail(last.body.email) # {}
              /\ ~comparePassword(last.body.password,
                     users[PrincipalId(last.body.email)].hashedPassword))
                => last.res = UnknownEmailResponse

\* a wrong password for a registered email, while another email is unknown
C8_Witness ==
    /\ last.op = "login"
    /\ UserByEmail(last.body.email) # {}
    /\ last.res.status = 401
    /\ \E e \in Emails : UserByEmail(e) = {}

\* C9: under rotation an accepted refresh revokes the record it consumed,
\* persists one new ACTIVE record of the same owner and returns that record's
\* token string, which differs from the presented one.
C9_RotationOnRefresh ==
    (RefreshAnswered /\ last.res.status = 200) =>
        /\ last.res.refreshToken # last.token
        /\ \A i \in TokenRows(last.token) : refreshTokens[i].revokedAt # NULL
        /\ \E i \in TokenRows(last.res.refreshToken) :
            /\ Active(refreshTokens[i], now)
            /\ refreshTokens[i].userId = last.token.userId

C11_LeakedTokenUsableOnce ==
    [][(last'.op = "refresh" /\ last'.res.status = 200) =>
          /\ last'.token \notin refreshedOK
          /\ \A i \in TokenRows(last'.token) : ~Active(refreshTokens'[i], now')]_vars

\* C12: every refresh refused because of the token it presents (malformed,
\* wrongly signed, expired, no record, revoked record) gets one and the same
\* response, the one sent when the record is missing or revoked.
C12_RefreshFailuresIndistinguishable ==
    (RefreshAnswered /\ last.token # NoToken /\ last.res.status # 200) =>
        /\ InvalidOrExpiredToken(last.res)
        /\ last.res = RefreshRecordFailure

\* C13: an expired access token is refused by the authentication middleware
\* with the very response the same middleware gives a wrongly signed and a
\* malformed token.
C13_AuthFailuresIndistinguishable ==
    (last.op = "authenticate" /\ last.token.secret = ACCESS_TOKEN_SECRET
        /\ Sec(now) >= last.token.exp) =>
        \E variant \in MiddlewareVariants :
            /\ last.res = AuthFailure(variant,
                    AuthVerify(variant, [last.token EXCEPT !.secret = AttackerSecret]))
            /\ last.res = AuthFailure(variant, AuthVerify(variant, Garbage))

\* C14: logout answers 200 whenever a record with the presented token string
\* exists, revoked or not, and answers 404 only when no record has it.
C14_LogoutFindsRevokedRecords ==
    (last.op = "logout" /\ last.token # NoToken) =>
        /\ TokenRows(last.token) # {} => last.res.status = 200
        /\ last.res.status = 404 => TokenRows(last.token) = {}

\* C15: revoking is idempotent: no step changes the revokedAt of a record that
\* is already revoked.
C15_RevokeIsIdempotent ==
    [][\A i \in 1 .. Len(refreshTokens) :
        refreshTokens[i].revokedAt # NULL =>
            refreshTokens'[i].revokedAt = refreshTokens[i].revokedAt]_vars

\* C16: no two records hold the same token string, and a login whose newly
\* signed refresh token string is already in the table fails: it is answered
\* with an error status, returns no token and leaves the table as it was.
C16_TokenStringUnique ==
    [][/\ \A i, j \in 1 .. Len(refreshTokens') :
            refreshTokens'[i].token = refreshTokens'[j].token => i = j
       /\ \A s \in Slots :
            (reqs[s].pc = "loginSaveToken" /\ reqs'[s].pc = "idle"
                /\ TokenRows(reqs[s].newToken) # {}) =>
                /\ refreshTokens' = refreshTokens
                /\ last'.res.accessToken = NoToken
                /\ last'.res.refreshToken = NoToken
                /\ last'.res.status >= 400]_vars

\* C17: no step removes a record from refresh_tokens, and the only field of an
\* existing record a step changes is revokedAt.
C17_RecordsOnlyGainRevocation ==
    [][/\ Len(refreshTokens') >= Len(refreshTokens)
       /\ \A i \in 1 .. Len(refreshTokens) :
            [refreshTokens'[i] EXCEPT !.revokedAt = NULL]
                = [refreshTokens[i] EXCEPT !.revokedAt = NULL]]_vars

\* a logout has just revoked one of two records
C17_Witness ==
    /\ last.op = "logout"
    /\ last.res.status = 200
    /\ Len(refreshTokens) = 2
    /\ \E i \in TokenRows(last.token) : refreshTokens[i].revokedAt # NULL

\* C18: the access token an accepted refresh returns carries the id of the
\* owner of the record and the roles that owner had in table users when the
\* refresh's query ran, also when they differ from the roles at login.
C18_RefreshUsesCurrentRoles ==
    [][\A s \in Slots :
        /\ (reqs[s].pc = "refreshFind" /\ reqs'[s].pc = "refreshRespond"
                /\ reqs'[s].owner # 0) =>
                /\ reqs'[s].owner = refreshTokens[reqs'[s].rowId].userId
                /\ reqs'[s].roles = users[reqs'[s].owner].roles
        /\ (reqs[s].pc = "refreshRespond" /\ reqs'[s].pc = "idle"
                /\ last'.res.status = 200) =>
                /\ last'.res.accessToken.userId = last'.token.userId
                /\ last'.res.accessToken.userId = PrincipalId(last'.token.email)
                /\ last'.res.accessToken.userId = reqs[s].owner
                /\ last'.res.accessToken.roles = reqs[s].roles]_vars

\* the refreshed access token has the roles granted after the login whose
\* access token had the default ones
C18_Witness ==
    /\ RefreshAnswered
    /\ last.res.status = 200
    /\ last.res.accessToken.roles = GrantedRoles
    /\ \E a \in IssuedAccess :
        /\ a.userId = last.token.userId
        /\ a.iat = last.token.iat
        /\ a.roles = {"user"}

\* C19: what the authentication middleware does with an access token a login
\* issued depends on the token and the clock alone: in every state of the
\* tables it passes the request on with the token's claims exactly while the
\* token has not expired, also after the session's refresh token was revoked.
C19_AuthenticateIgnoresStore ==
    (last.op = "authenticate" /\ last.token \in IssuedAccess) =>
        /\ last.claims = last.token <=> Sec(now) < last.token.exp
        /\ last.res = NoRes <=> Sec(now) < last.token.exp

\* an access token passes although every refresh record of its subject has
\* been revoked by logout
C19_Witness ==
    /\ last.op = "authenticate"
    /\ last.token \in IssuedAccess
    /\ last.claims = last.token
    /\ \E i \in 1 .. Len(refreshTokens) : refreshTokens[i].userId = last.token.userId
    /\ \A i \in 1 .. Len(refreshTokens) :
        refreshTokens[i].userId = last.token.userId => refreshTokens[i].revokedAt # NULL

\* C20: authorizeRoles(requiredRoles) passes the request on exactly when
\* claims are attached and their roles intersect requiredRoles; with claims and
\* no common role it fails 403 (Forbidden), without claims 401
\* (Unauthenticated); a request that fails is not passed on.
C20_AuthorizeRoles ==
    last.op = "authorize" =>
        /\ last.claims # NoToken <=>
                (last.token # NoToken /\ last.token.roles \cap last.required # {})
        /\ last.claims # NoToken => (last.res = NoRes /\ last.claims = last.token)
        /\ (last.token # NoToken /\ last.token.roles \cap last.required = {}) =>
                last.res.status = 403
        /\ last.token = NoToken => last.res.status = 401
        /\ last.res # NoRes => last.claims = NoToken

\* a request passes with one of two required roles
C20_Witness ==
    /\ last.op = "authorize"
    /\ last.claims = last.token
    /\ last.token # NoToken
    /\ last.required \cap last.token.roles # {}
    /\ ~(last.required \subseteq last.token.roles)

\* C21: a login that answers with tokens appends exactly one record to the
\* table and changes no other: the new record holds the returned refresh token
\* string, is owned by the principal of the email that logged in, has the
\* client's address and user agent, is not revoked and expires after the
\* instant the login signed it; the response carries one access token and one
\* refresh token, and these two are all the login issued.
C21_LoginPersistsOneActiveRecord ==
    [][\A s \in Slots :
        (reqs[s].op = "login" /\ reqs'[s].op = "idle" /\ last'.op = "login"
            /\ last'.res.status = 200 /\ last'.res.accessToken # NoToken) =>
            /\ Len(refreshTokens') = Len(refreshTokens) + 1
            /\ SubSeq(refreshTokens', 1, Len(refreshTokens)) = refreshTokens
            /\ LET row == refreshTokens'[Len(refreshTokens')]
               IN  /\ row.token = last'.res.refreshToken
                   /\ row.userId = PrincipalId(last'.body.email)
                   /\ row.user = row.userId
                   /\ row.userId = last'.res.accessToken.userId
                   /\ row.revokedAt = NULL
                   /\ reqs[s].at < row.expiresAt
                   /\ row.ipAddress = reqs[s].ip /\ row.ipAddress \in ClientIps
                   /\ row.userAgent = reqs[s].ua /\ row.userAgent \in UserAgents
            /\ last'.res.accessToken.hasRoles
            /\ last'.res.refreshToken # NoToken
            /\ ~last'.res.refreshToken.hasRoles
            /\ issued' = issued \cup {last'.res.accessToken, last'.res.refreshToken}]_vars

\* the second successful login: its record is the second of the table
C21_Witness ==
    /\ last.op = "login"
    /\ last.res.status = 200
    /\ Len(refreshTokens) = 2
    /\ refreshTokens[2].token = last.res.refreshToken
    /\ refreshTokens[1].token # refreshTokens[2].token

\* C22: whenever the service has answered a request or signed a token, both
\* signing secrets are present and have at least MinSecretLength characters.
C22_NoServiceWithWeakKey ==
    (last.op # "none" \/ issued # {}) =>
        /\ ACCESS_TOKEN_SECRET # ""
        /\ REFRESH_TOKEN_SECRET # ""
        /\ Len(ACCESS_TOKEN_SECRET) >= MinSecretLength
        /\ Len(REFRESH_TOKEN_SECRET) >= MinSecretLength
        /\ \A t \in issued : Len(t.secret) >= MinSecretLength

\* C23: in every configuration the service serves with, the authentication
\* middleware lets no token pass that a login issued as a refresh token, and
\* no refresh is accepted for a token issued as an access token.
C23_TokenClassesIsolated ==
    /\ (last.op = "authenticate" /\ last.claims # NoToken) =>
            last.token \notin IssuedRefresh
    /\ (RefreshAnswered /\ last.res.status = 200) =>
            last.token \notin IssuedAccess

\* C24: a refresh during which a store operation failed is answered as a
\* server-side failure (status 500 or above), never with a client-fault status.
C24_StoreFailureIsNotClientFault ==
    (RefreshAnswered /\ last.error \in StoreErrors) => last.res.status >= 500

\* C25: when a handler caught an internal error, the message of that error is
\* not what the response body carries.
C25_NoInternalErrorText ==
    (last.op \in {"register", "login", "refresh", "logout"} /\ last.error # "") =>
        last.res.message # last.error

\* C26: a refresh whose query found an ACTIVE record without an owner is
\* answered with a server-side integrity failure (status 500 or above), not
\* with InvalidOrExpiredToken, and with no token.
C26_MissingOwnerIsIntegrityError ==
    [][\A s \in Slots :
        (reqs[s].pc = "refreshRespond" /\ reqs'[s].pc = "idle"
            /\ reqs[s].rowId # 0 /\ reqs[s].owner = 0) =>
            /\ ~InvalidOrExpiredToken(last'.res)
            /\ last'.res.status >= 500
            /\ last'.res.accessToken = NoToken
            /\ last'.res.refreshToken = NoToken]_vars

\* C27: the expiresAt of every record is the instant its token's exp claim
\* names (exp counts seconds, expiresAt milliseconds).
C27_StoredExpiryEqualsTokenExpiry ==
    \A i \in 1 .. Len(refreshTokens) :
        refreshTokens[i].expiresAt = refreshTokens[i].token.exp * 1000

\* C28: a refresh that is answered with a 4xx status leaves the table of
\* refresh tokens as it was: no record revoked, none created.
C28_FailedRefreshLeavesStore ==
    [][(last'.op = "refresh" /\ last'.res.status \in 400 .. 499) =>
          refreshTokens' = refreshTokens]_vars

\* a refresh refused after the logout of its token, while another record of
\* the same user is not revoked
C28_Witness ==
    /\ RefreshAnswered
    /\ last.res.status = 401
    /\ last.late
    /\ \E i \in 1 .. Len(refreshTokens) :
        /\ refreshTokens[i].userId = last.token.userId
        /\ refreshTokens[i].token # last.token
        /\ refreshTokens[i].revokedAt = NULL

\* C29: when a refresh is answered with success, no record holding the
\* presented token string is revoked.
C29_NoSuccessForRevokedRecord ==
    (RefreshAnswered /\ last.res.status = 200) =>
        \A i \in TokenRows(last.token) : refreshTokens[i].revokedAt = NULL

\* the next step of the handler of the request in slot s
HandlerStep(s) ==
    \/ RegisterSave(s)
    \/ LoginSaveUser(s)
    \/ LoginSaveToken(s)
    \/ RefreshFind(s)
    \/ RefreshRespond(s)
    \/ LogoutSave(s)

C31_FailedLoginChangesNothing ==
    [][(last'.op = "login" /\ last'.res.status \in {400, 401}) =>
          /\ users' = users
          /\ refreshTokens' = refreshTokens
          /\ issued' = issued
          /\ last'.res.accessToken = NoToken
          /\ last'.res.refreshToken = NoToken]_vars

\* a wrong password for a user who logged in before, at a later clock value
C31_Witness ==
    /\ last.op = "login"
    /\ last.res = WrongPasswordResponse
    /\ \E i \in UserByEmail(last.body.email) :
        /\ users[i].lastLoginAt # NULL
        /\ users[i].lastLoginAt < now
    /\ refreshTokens # <<>>

\* C32: no two rows of table users have the same email, and a register
\* request is answered 201 (created), 400 (malformed body) or 409 (Conflict,
\* the email is taken), also when the email was taken by a concurrent
\* register between its lookup and its INSERT.
C32_OnePrincipalPerEmail ==
    /\ \A i, j \in 1 .. Len(users) : users[i].email = users[j].email => i = j
    /\ last.op = "register" => last.res.status \in {201, 400, 409}

====
